---- MODULE Spec2Model ----
(***************************************************************************)
(* Submission grading pipeline of acad_ai (server/src/assessments and      *)
(* server/src/grading).  Decimal point values are modelled as integers in  *)
(* whole points; ids are integers, stored ids are positive, and None is a   *)
(* value apart from every integer a request can carry.                     *)
(***************************************************************************)
EXTENDS Integers, Sequences, FiniteSets, TLC

\* ------------------------------------------------------------------ bounds
NumCalls == 2
MaxTime == 2
MaxResp == 2
MaxEntries == 3

\* --------------------------------------------------------------- constants
NoTime == -1
NoPoints == -1
None == -1

MCQ == "MCQ"
SHORT_TEXT == "SHORT_TEXT"
SUBMITTED == "SUBMITTED"
GRADED == "GRADED"

Calls == 1..NumCalls
Users == {1, 2}

\* ------------------------------------------------ stored exam structure
\* Exam rows: is_active flag and the optional scheduling window.
ExamRows ==
  [e \in {1, 2, 3} |->
     CASE e = 1 -> [is_active |-> TRUE, starts_at |-> 1, ends_at |-> NoTime]
       [] e = 2 -> [is_active |-> TRUE, starts_at |-> NoTime, ends_at |-> 1]
       [] e = 3 -> [is_active |-> FALSE, starts_at |-> 0, ends_at |-> 2]]

ExamIds == DOMAIN ExamRows

\* Question rows: owning exam, type and points.
QuestionRows ==
  [q \in {1, 2, 3} |->
     CASE q = 1 -> [exam |-> 1, type |-> MCQ, points |-> 2]
       [] q = 2 -> [exam |-> 1, type |-> SHORT_TEXT, points |-> 3]
       [] q = 3 -> [exam |-> 2, type |-> MCQ, points |-> 1]]

QuestionIds == DOMAIN QuestionRows

\* Choice rows: owning question and correctness flag.  Question 1 has two
\* choices marked correct (2 and 3); question 3 has none.
ChoiceRows ==
  [c \in {1, 2, 3, 4} |->
     CASE c = 1 -> [question |-> 1, is_correct |-> FALSE]
       [] c = 2 -> [question |-> 1, is_correct |-> TRUE]
       [] c = 3 -> [question |-> 1, is_correct |-> TRUE]
       [] c = 4 -> [question |-> 3, is_correct |-> FALSE]]

ChoiceIds == DOMAIN ChoiceRows

\* ------------------------------------------------------------------ state
VARIABLES
  now,          \* timezone.now()
  submissions,  \* committed Submission rows
  answers,      \* committed SubmissionAnswer rows
  pc,           \* position of each request
  req,          \* request of each call: user, exam_id, answers payload
  txSub,        \* Submission rows written by the open transaction
  txAns,        \* SubmissionAnswer rows written by the open transaction
  err,          \* error raised to the caller
  grade,        \* GradeResult returned by the grading pipeline
  provider,     \* the last response of the provider to the call
  payload,      \* the payload the call passed to the provider
  adapter,      \* the provider adapter's loop: attempts, outcomes, sleeps
  view,         \* the last response of a read view
  synth         \* the feedback synthesizer's arguments and its result

vars == <<now, submissions, answers, pc, req, txSub, txAns, err, grade, provider,
          payload, adapter, view, synth>>

\* ---------------------------------------------------------------- helpers
Range(s) == {s[i] : i \in DOMAIN s}

RECURSIVE SumSeq(_)
SumSeq(s) == IF s = <<>> THEN 0 ELSE Head(s) + SumSeq(Tail(s))

SeqsUpTo(S, n) == UNION {[1..k -> S] : k \in 0..n}

Min(S) == CHOOSE x \in S : \A y \in S : x <= y

\* All orders in which a set of rows can be read.
Orders(S) == {s \in [1..Cardinality(S) -> S] : Range(s) = S}

\* str.strip() on a text given as a sequence of characters.
RECURSIVE LStrip(_)
LStrip(t) == IF t # <<>> /\ Head(t) = " " THEN LStrip(Tail(t)) ELSE t

RECURSIVE RStrip(_)
RStrip(t) ==
  IF t # <<>> /\ t[Len(t)] = " " THEN RStrip(SubSeq(t, 1, Len(t) - 1)) ELSE t

\* Variant: only the leading whitespace is removed.
StripLeft(t) == LStrip(t)

Strip(t) == RStrip(LStrip(t))

\* ------------------------------------------------------- models.py: Exam
\* Variant: the end of the window is not looked at.
is_open_without_end(exam, t) ==
  IF ~exam.is_active THEN FALSE
  ELSE IF exam.starts_at # NoTime /\ t < exam.starts_at THEN FALSE
  ELSE TRUE

\* Exam.is_open(): early returns in the order of the code.
is_open(exam, t) ==
  IF ~exam.is_active THEN FALSE
  ELSE IF exam.starts_at # NoTime /\ t < exam.starts_at THEN FALSE
  ELSE IF exam.ends_at # NoTime /\ t > exam.ends_at THEN FALSE
  ELSE TRUE

\* ---------------------------------------------- serializers.py: boundary
\* Variant: only the empty list is refused.
validate_answers_nonempty(answers_payload) == answers_payload # <<>>

\* SubmissionCreateSerializer.validate_answers: TRUE when the list passes.
validate_answers(answers_payload) ==
  /\ answers_payload # <<>>
  /\ Cardinality({answers_payload[i].question_id : i \in DOMAIN answers_payload})
       = Len(answers_payload)

\* ------------------------------------------------- submission_service.py
\* Question.objects.filter(exam=exam, id__in=question_ids): ids found.
FoundQuestions(exam_id, answers_payload) ==
  {q \in QuestionIds :
     /\ QuestionRows[q].exam = exam_id
     /\ \E i \in DOMAIN answers_payload : answers_payload[i].question_id = q}

\* Variant: only the first id that is not found is reported.
FirstMissingQuestion(exam_id, answers_payload) ==
  LET idx == {i \in DOMAIN answers_payload :
                answers_payload[i].question_id \notin FoundQuestions(exam_id, answers_payload)}
  IN IF idx = {} THEN <<>> ELSE <<answers_payload[Min(idx)].question_id>>

\* missing = [qid for qid in question_ids if qid not in found]
RECURSIVE MissingQuestions(_, _)
MissingQuestions(exam_id, answers_payload) ==
  IF answers_payload = <<>> THEN <<>>
  ELSE LET qid == Head(answers_payload).question_id
           rest == MissingQuestions(exam_id, Tail(answers_payload))
       IN IF qid \in FoundQuestions(exam_id, answers_payload) THEN rest
          ELSE <<qid>> \o rest

\* _validate_choice: question.choices.get(id=selected_choice_id) succeeds.
validate_choice(qid, choice_id) ==
  choice_id \in ChoiceIds /\ ChoiceRows[choice_id].question = qid

\* `if choice_id:` holds for an integer other than 0, not for None or 0.
Truthy(choice_id) == choice_id # None /\ choice_id # 0

\* The loop over answers_payload: does any item raise in _validate_choice?
ChoiceError(answers_payload) ==
  \E i \in DOMAIN answers_payload :
     LET item == answers_payload[i] IN
       /\ QuestionRows[item.question_id].type = MCQ
       /\ Truthy(item.selected_choice_id)
       /\ ~validate_choice(item.question_id, item.selected_choice_id)

\* The SubmissionAnswer row built for one answers_payload item.
AnswerRow(sid, item) ==
  LET q == QuestionRows[item.question_id] IN
    [submission |-> sid,
     question |-> item.question_id,
     answer_text |-> IF q.type = MCQ THEN <<>> ELSE Strip(item.answer_text),
     selected_choice |-> IF q.type = MCQ /\ Truthy(item.selected_choice_id)
                         THEN item.selected_choice_id ELSE None,
     is_correct |-> "null",
     awarded_points |-> NoPoints]

AnswerRows(sid, answers_payload) ==
  {AnswerRow(sid, answers_payload[i]) : i \in DOMAIN answers_payload}

\* ------------------------------------------------------ grading/service.py
\* Variant: only the lower bound is enforced.
ClampLowerOnly(awarded, q_points) == IF awarded < 0 THEN 0 ELSE awarded

\* Clamp awarded_points to [0, question.points].
Clamp(awarded, q_points) ==
  LET a == IF awarded < 0 THEN 0 ELSE awarded
  IN IF a > q_points THEN q_points ELSE a

\* answers.get(question_id=qid) finds a row of the submission.
HasAnswer(rows, qid) == \E a \in rows : a.question = qid

\* Variant: the provider's value is kept whatever it is.
is_correct_as_given(value) == value

\* is_correct if isinstance(is_correct, bool) or is_correct is None else None;
\* item.get("is_correct", None) gives None for an absent field.
normalize_is_correct(value) ==
  IF value \in {"true", "false", "null"} THEN value ELSE "null"

\* The loop of _normalize_grade_result over per_question_raw.
RECURSIVE NormalizeItems(_)
NormalizeItems(items) ==
  IF items = <<>> THEN <<>>
  ELSE LET item == Head(items) IN
       <<[question_id |-> item.question_id,
          awarded_points |-> Clamp(item.awarded_points,
                                   QuestionRows[item.question_id].points),
          is_correct |-> normalize_is_correct(item.is_correct)]>>
       \o NormalizeItems(Tail(items))

\* q.choices.filter(is_correct=True).first(): lowest id, or None.
FirstCorrectChoice(qid) ==
  LET cs == {c \in ChoiceIds :
               ChoiceRows[c].question = qid /\ ChoiceRows[c].is_correct}
  IN IF cs = {} THEN None ELSE Min(cs)

\* The deterministic grade of one MCQ answer row.
McqGrade(a) ==
  LET correct == FirstCorrectChoice(a.question)
      ok == correct # None /\ a.selected_choice = correct
  IN [question_id |-> a.question,
      awarded_points |-> IF ok THEN QuestionRows[a.question].points ELSE 0,
      is_correct |-> IF ok THEN "true" ELSE "false"]

\* list.sort(key=question_id): stable insertion sort.
RECURSIVE InsertSorted(_, _)
InsertSorted(s, x) ==
  IF s = <<>> THEN <<x>>
  ELSE IF s[Len(s)].question_id <= x.question_id THEN Append(s, x)
  ELSE Append(InsertSorted(SubSeq(s, 1, Len(s) - 1), x), s[Len(s)])

\* Variant: the list is returned in the order it was built.
SortSkipped(s) == s

RECURSIVE SortByQuestionId(_)
SortByQuestionId(s) ==
  IF s = <<>> THEN <<>>
  ELSE InsertSorted(SortByQuestionId(SubSeq(s, 1, Len(s) - 1)), s[Len(s)])

\* The loop of _merge_with_deterministic_mcq over the answer rows, read in
\* the given order; existing_qids is fixed before the loop.
RECURSIVE McqAppended(_, _)
McqAppended(order, existing_qids) ==
  IF order = <<>> THEN <<>>
  ELSE LET a == Head(order)
           rest == McqAppended(Tail(order), existing_qids)
       IN IF QuestionRows[a.question].type # MCQ THEN rest
          ELSE IF a.question \in existing_qids THEN rest
          ELSE <<McqGrade(a)>> \o rest

AwardedOf(s) == [i \in DOMAIN s |-> s[i].awarded_points]

merge_with_deterministic_mcq(order, total_score, per_question) ==
  LET existing_qids == {per_question[i].question_id : i \in DOMAIN per_question}
      added == McqAppended(order, existing_qids)
  IN [total_score |-> total_score + SumSeq(AwardedOf(added)),
      per_question |-> SortByQuestionId(per_question \o added)]

\* Sum of question.points over the answer rows of the submission.
RECURSIVE AnsweredPoints(_)
AnsweredPoints(rows) ==
  IF rows = {} THEN 0
  ELSE LET a == CHOOSE x \in rows : TRUE
       IN QuestionRows[a.question].points + AnsweredPoints(rows \ {a})

\* Variant: the entry's question is not looked up among the answer rows.
ItemErrorIgnoringRows(item, rows) ==
  IF item.form = "no_question_id" THEN "KeyError"
  ELSE IF item.form = "non_numeric" THEN "decimal.InvalidOperation"
  ELSE "none"

\* A feedback dict: its summary entry (absent, a text, or null) and the set
\* of its other entries as <<key, value>> pairs.
FeedbackDict(summary_kind, summary, others) ==
  [summary_kind |-> summary_kind, summary |-> summary, others |-> others]

\* resp.get("feedback", {}) if that is a dict, else {"summary": ""}.
feedback_of(resp) ==
  IF resp.feedback.shape = "object"
  THEN FeedbackDict(resp.feedback.summary_kind, resp.feedback.summary,
                    resp.feedback.others)
  ELSE IF resp.feedback.shape = "absent" THEN FeedbackDict("absent", <<>>, {})
  ELSE FeedbackDict("text", <<>>, {})

\* A part of the summary: its sentence and the numbers or text it shows.
Part(kind, a, b, text) == [kind |-> kind, a |-> a, b |-> b, text |-> text]

\* q_data and q_data["type"] == QuestionType.MCQ
IsMcqResult(r) ==
  r.question_id \in QuestionIds /\ QuestionRows[r.question_id].type = MCQ

\* Variant: half of the answers correct is "Good understanding" already.
McqSentenceFromHalf(mcq_correct, mcq_total) ==
  IF mcq_correct = mcq_total THEN "Strong performance"
  ELSE IF 2 * mcq_correct >= mcq_total THEN "Good understanding"
  ELSE "need improvement"

\* The sentence chosen at lines 258-269; mcq_correct > mcq_total / 2 is a
\* comparison with the true quotient.
McqSentence(mcq_correct, mcq_total) ==
  IF mcq_correct = mcq_total THEN "Strong performance"
  ELSE IF 2 * mcq_correct > mcq_total THEN "Good understanding"
  ELSE "need improvement"

\* The fallback sentence chosen at lines 283-294.
TextSentence(text_answered, text_total) ==
  IF text_answered = 0 THEN "No answers provided"
  ELSE IF text_answered < text_total THEN "Partial completion"
  ELSE "Completed all"

\* summary_parts of _enhance_feedback_with_mcq, before the join.
summary_parts(feedback, per_question, total_score, max_score) ==
  LET mcq_results == SelectSeq(per_question, IsMcqResult)
      text_results == SelectSeq(per_question, LAMBDA r : ~IsMcqResult(r))
      mcq_correct == Cardinality({i \in DOMAIN mcq_results :
                                    mcq_results[i].is_correct = "true"})
      text_answered == Cardinality({i \in DOMAIN text_results :
                                      text_results[i].awarded_points > 0})
      original_summary == IF feedback.summary_kind = "text"
                          THEN Strip(feedback.summary) ELSE <<>>
  IN <<Part("Overall Performance", total_score, max_score, <<>>)>>
     \o (IF mcq_results = <<>> THEN <<>>
         ELSE <<Part(McqSentence(mcq_correct, Len(mcq_results)),
                     mcq_correct, Len(mcq_results), <<>>)>>)
     \o (IF text_results = <<>> THEN <<>>
         ELSE IF original_summary # <<>>
         THEN <<Part("provider summary", 0, 0, original_summary)>>
         ELSE <<Part(TextSentence(text_answered, Len(text_results)),
                     text_answered, Len(text_results), <<>>)>>)

\* Variant: the result holds the summary alone.
enhance_feedback_summary_only(feedback, per_question, total_score, max_score) ==
  FeedbackDict("parts",
               summary_parts(feedback, per_question, total_score, max_score), {})

\* _enhance_feedback_with_mcq: feedback["summary"] is set, the other
\* entries stay.
enhance_feedback_with_mcq(feedback, per_question, total_score, max_score) ==
  FeedbackDict("parts",
               summary_parts(feedback, per_question, total_score, max_score),
               feedback.others)

\* feedback.get("summary", "").strip() raises when the summary is null.
SummaryError(feedback) == feedback.summary_kind = "null"

\* What one iteration of the loop raises, if anything: item["question_id"],
\* Decimal(str(...)) and answers.get(question_id=qid), in that order.
ItemError(item, rows) ==
  IF item.form = "no_question_id" THEN "KeyError"
  ELSE IF item.form = "non_numeric" THEN "decimal.InvalidOperation"
  ELSE IF ~HasAnswer(rows, item.question_id) THEN "DoesNotExist"
  ELSE "none"

\* The exception that ends the loop: that of the first item that raises.
RECURSIVE FirstItemError(_, _)
FirstItemError(items, rows) ==
  IF items = <<>> THEN "none"
  ELSE IF ItemError(Head(items), rows) # "none" THEN ItemError(Head(items), rows)
  ELSE FirstItemError(Tail(items), rows)

\* resp.get("per_question", []) and the isinstance(..., list) test.
per_question_raw(resp) ==
  IF resp.shape = "list" THEN [is_list |-> TRUE, items |-> resp.per_question]
  ELSE IF resp.shape = "absent" THEN [is_list |-> TRUE, items |-> <<>>]
  ELSE [is_list |-> FALSE, items |-> <<>>]

\* _normalize_grade_result: the raised exception or the GradeResult.
normalize_grade_result(resp, rows, order) ==
  IF resp.shape = "not_object"
  THEN [ok |-> FALSE, error |-> "AttributeError", message |-> ""]
  ELSE IF ~per_question_raw(resp).is_list
  THEN [ok |-> FALSE, error |-> "LLMGradingError",
        message |-> "per_question must be a list"]
  ELSE IF FirstItemError(per_question_raw(resp).items, rows) # "none"
  THEN [ok |-> FALSE, error |-> FirstItemError(per_question_raw(resp).items, rows),
        message |-> ""]
  ELSE IF SummaryError(feedback_of(resp))
  THEN [ok |-> FALSE, error |-> "AttributeError", message |-> ""]
  ELSE LET per_question == NormalizeItems(per_question_raw(resp).items)
           merged == merge_with_deterministic_mcq(
                       order, SumSeq(AwardedOf(per_question)), per_question)
       IN [ok |-> TRUE,
           total_score |-> merged.total_score,
           max_score |-> AnsweredPoints(rows),
           feedback |-> enhance_feedback_with_mcq(
                          feedback_of(resp), merged.per_question,
                          merged.total_score, AnsweredPoints(rows)),
           per_question |-> merged.per_question]

\* The answer row of the submission for a question, as answers_by_qid.get.
AnswerFor(rows, qid) ==
  IF HasAnswer(rows, qid) THEN CHOOSE a \in rows : a.question = qid
  ELSE [question |-> qid, answer_text |-> <<>>, selected_choice |-> None]

\* The dict _build_payload appends for question qid.
PayloadQuestion(rows, qid) ==
  [question_id |-> qid,
   type |-> QuestionRows[qid].type,
   max_points |-> QuestionRows[qid].points,
   student_answer_text |-> AnswerFor(rows, qid).answer_text,
   selected_choice_id |-> AnswerFor(rows, qid).selected_choice,
   correct_choice_id |-> IF QuestionRows[qid].type = MCQ
                         THEN FirstCorrectChoice(qid) ELSE None]

\* submission.exam.questions.all().order_by("order"): ids from qid upward.
RECURSIVE ExamQuestionsFrom(_, _)
ExamQuestionsFrom(exam_id, qid) ==
  IF \A q \in QuestionIds : q < qid THEN <<>>
  ELSE IF qid \in QuestionIds /\ QuestionRows[qid].exam = exam_id
  THEN <<qid>> \o ExamQuestionsFrom(exam_id, qid + 1)
  ELSE ExamQuestionsFrom(exam_id, qid + 1)

\* _build_payload: every question of the exam, answered or not.
build_payload(exam_id, rows) ==
  LET qids == ExamQuestionsFrom(exam_id, 1) IN
    [questions |-> [i \in DOMAIN qids |-> PayloadQuestion(rows, qids[i])],
     max_score |-> SumSeq([i \in DOMAIN qids |-> QuestionRows[qids[i]].points])]

\* Variant: the payload is passed on as it was built.
payload_unfiltered(p) == p

\* _payload_text_only: keeps the questions of type SHORT_TEXT.
payload_text_only(p) ==
  [p EXCEPT !.questions =
     SelectSeq(p.questions, LAMBDA q : q.type = SHORT_TEXT)]

\* ------------------------------------ grading/providers/openai_provider.py
max_retries == 3

\* Variant: the loop runs max_retries times.
AttemptsWithoutFirst == max_retries

\* range(self.max_retries + 1): the attempts the loop can make.
AttemptsAllowed == max_retries + 1

\* The factor 0.8 of time.sleep, in tenths of a second.
base_delay == 8

\* Variant: the same delay after every failed attempt.
BackoffFixed(attempt) == base_delay

\* time.sleep(0.8 * (attempt + 1)), in tenths of a second.
BackoffDelay(attempt) == base_delay * (attempt + 1)

\* ------------------------------------------------------------ input sets
Item(q, ch, text) ==
  [question_id |-> q, selected_choice_id |-> ch, answer_text |-> text]

\* Answer items a request can carry.
Items ==
  {Item(1, ch, <<>>) : ch \in {None, 0, 1, 2, 3, 4}}
    \cup {Item(2, None, t) : t \in {<<>>, <<" ", "x">>}}
    \cup {Item(3, ch, <<>>) : ch \in {None, 4}}
    \cup {Item(9, None, <<>>)}

\* Answer lists whose items carry content of the other question kind: a
\* text on a MultipleChoice answer, a choice id on a ShortText answer.
ContentPayloads ==
  {<<Item(1, 2, <<"x">>), Item(2, 4, <<" ", "x", " ">>)>>,
   <<Item(2, 0, <<" ">>)>>,
   <<Item(3, None, <<"x", " ">>)>>}

\* Entries a provider response can carry for a question.
ProviderItems ==
  [question_id : QuestionIds, awarded_points : {-1, 1, 5},
   is_correct : {"true", "null"}, form : {"ok"}]

\* Entries that award nothing.
ZeroItems ==
  [question_id : QuestionIds, awarded_points : {0},
   is_correct : {"false"}, form : {"ok"}]

\* Entries whose is_correct is a number, a string, or is left out.
IsCorrectItems ==
  [question_id : {2}, awarded_points : {1},
   is_correct : {"number 1", "string true", "absent"}, form : {"ok"}]

\* Entries without a question_id or with an awarded_points that is no number.
MalformedItems ==
  [question_id : {2}, awarded_points : {1}, is_correct : {"null"},
   form : {"no_question_id", "non_numeric"}]

\* The value of "feedback" in a provider response: left out, no object, or
\* an object with or without a summary and with or without another entry.
ProviderFeedback(shape, summary_kind, summary, others) ==
  [shape |-> shape, summary_kind |-> summary_kind, summary |-> summary,
   others |-> others]

NoProviderFeedback == ProviderFeedback("absent", "absent", <<>>, {})

ProviderFeedbacks ==
  {NoProviderFeedback,
   ProviderFeedback("not_object", "absent", <<>>, {}),
   ProviderFeedback("object", "absent", <<>>, {}),
   ProviderFeedback("object", "absent", <<>>, {<<"strengths", "clear">>}),
   ProviderFeedback("object", "text", <<" ", "o", "k">>, {<<"strengths", "clear">>}),
   ProviderFeedback("object", "text", <<" ">>, {}),
   ProviderFeedback("object", "null", <<>>, {})}

\* Submission.feedback = JSONField(default=dict): the empty dict.
NoFeedback == [summary_kind |-> "absent", summary |-> <<>>, others |-> {}]

NoGrade == [ok |-> FALSE, error |-> "none"]
NoResp == [kind |-> "none"]
NoError == [kind |-> "none", ids |-> <<>>, message |-> ""]
NoPayload == [questions |-> <<>>, max_score |-> 0]
NoAttempts == [attempts |-> 0, outcomes |-> <<>>, sleeps |-> <<>>]
NoView == [kind |-> "none", user |-> 0, id |-> 0, rows |-> {}]
NoSynth ==
  [per_question |-> <<>>, total_score |-> 0, max_score |-> 0,
   feedback |-> NoFeedback, done |-> FALSE]

\* Grades a result can hold for the questions of exam 1: the MultipleChoice
\* question 1 right, wrong or unknown, the ShortText question 2 with no or
\* all points.
SynthResults ==
  {[question_id |-> 1, awarded_points |-> 2, is_correct |-> "true"],
   [question_id |-> 1, awarded_points |-> 0, is_correct |-> "false"],
   [question_id |-> 1, awarded_points |-> 0, is_correct |-> "null"],
   [question_id |-> 2, awarded_points |-> 0, is_correct |-> "null"],
   [question_id |-> 2, awarded_points |-> 3, is_correct |-> "null"]}

\* The lists the merge hands to the synthesizer: sorted by question_id.
SynthLists ==
  {s \in SeqsUpTo(SynthResults, MaxEntries) : SortByQuestionId(s) = s}

\* The arguments of one call of _enhance_feedback_with_mcq.
SynthInputs ==
  {[per_question |-> s, total_score |-> SumSeq(AwardedOf(s)),
    max_score |-> AnsweredPoints({[question |-> s[i].question_id] : i \in DOMAIN s}),
    feedback |-> f, done |-> FALSE] :
     s \in SynthLists,
     f \in {FeedbackDict("absent", <<>>, {}),
             FeedbackDict("text", <<"o", "k">>, {<<"strengths", "clear">>})}}

\* --------------------------------------------------- the state machine
\* No request has arrived and nothing is stored.
InitRequests ==
  /\ submissions = {}
  /\ answers = {}
  /\ pc = [c \in Calls |-> "idle"]
  /\ req = [c \in Calls |-> [user |-> 0, exam_id |-> 0, answers |-> <<>>]]
  /\ txSub = [c \in Calls |-> {}]
  /\ txAns = [c \in Calls |-> {}]
  /\ err = [c \in Calls |-> NoError]
  /\ grade = [c \in Calls |-> NoGrade]
  /\ provider = [c \in Calls |-> NoResp]
  /\ payload = [c \in Calls |-> NoPayload]
  /\ adapter = [c \in Calls |-> NoAttempts]
  /\ view = NoView

\* No request has arrived; the clock shows any time.
Init ==
  /\ now \in 0..MaxTime
  /\ InitRequests
  /\ synth = NoSynth

\* timezone.now() advances.
Tick ==
  /\ now < MaxTime
  /\ now' = now + 1
  /\ UNCHANGED <<submissions, answers, pc, req, txSub, txAns, err, grade, provider,
               payload, adapter, view, synth>>

\* Variant: no enclosing transaction, every write is committed at once.
RaiseWithoutRollback(c, e, ids, msg) ==
  /\ pc' = [pc EXCEPT ![c] = "failed"]
  /\ err' = [err EXCEPT ![c] = [kind |-> e, ids |-> ids, message |-> msg]]
  /\ submissions' = submissions \cup txSub[c]
  /\ answers' = answers \cup txAns[c]
  /\ txSub' = [txSub EXCEPT ![c] = {}]
  /\ txAns' = [txAns EXCEPT ![c] = {}]

\* An exception leaves the atomic block: the transaction is rolled back.
RaiseWith(c, e, ids, msg) ==
  /\ pc' = [pc EXCEPT ![c] = "failed"]
  /\ err' = [err EXCEPT ![c] = [kind |-> e, ids |-> ids, message |-> msg]]
  /\ txSub' = [txSub EXCEPT ![c] = {}]
  /\ txAns' = [txAns EXCEPT ![c] = {}]
  /\ UNCHANGED <<submissions, answers>>

Raise(c, e) == RaiseWith(c, e, <<>>, "")

RaiseMessage(c, e, msg) == RaiseWith(c, e, <<>>, msg)

Goto(c, next) ==
  /\ pc' = [pc EXCEPT ![c] = next]
  /\ UNCHANGED err

\* SubmissionCreateView.post: the serializer validates the answer list, then
\* create_and_grade_submission is entered.
Post(c, users, exams, payloads) ==
  /\ pc[c] = "idle"
  /\ \E u \in users, e \in exams, answers_payload \in payloads :
       /\ req' = [req EXCEPT ![c] = [user |-> u, exam_id |-> e, answers |-> answers_payload]]
       /\ IF validate_answers(answers_payload)
          THEN Goto(c, "validate_exam")
          ELSE /\ pc' = [pc EXCEPT ![c] = "rejected"]
               /\ err' = [err EXCEPT ![c] = [kind |-> "serializer: answers",
                                              ids |-> <<>>, message |-> ""]]
  /\ UNCHANGED <<now, submissions, answers, txSub, txAns, grade, provider,
               payload, adapter, view, synth>>

\* _validate_exam_open(exam)
ValidateExam(c) ==
  /\ pc[c] = "validate_exam"
  /\ IF is_open(ExamRows[req[c].exam_id], now)
     THEN Goto(c, "check_exists") /\ UNCHANGED <<txSub, txAns, submissions, answers>>
     ELSE Raise(c, "ValidationError: exam not open")
  /\ UNCHANGED <<now, req, grade, provider, payload, adapter, view, synth>>

\* Submission.objects.filter(student_id=..., exam_id=...).exists() reads the
\* committed rows.
SubmissionExists(c) ==
  \E s \in submissions : s.student = req[c].user /\ s.exam = req[c].exam_id

\* Variant: the existence check never finds a row.
CheckExistsSkipped(c) ==
  /\ pc[c] = "check_exists"
  /\ Goto(c, "validate_questions")
  /\ UNCHANGED <<now, req, grade, provider, txSub, txAns, submissions, answers,
               payload, adapter, view, synth>>

CheckExists(c) ==
  /\ pc[c] = "check_exists"
  /\ IF SubmissionExists(c)
     THEN Raise(c, "ValidationError: already submitted")
     ELSE Goto(c, "validate_questions") /\ UNCHANGED <<txSub, txAns, submissions, answers>>
  /\ UNCHANGED <<now, req, grade, provider, payload, adapter, view, synth>>

\* _validate_questions_belong_to_exam(exam, question_ids)
ValidateQuestions(c) ==
  /\ pc[c] = "validate_questions"
  /\ LET missing == MissingQuestions(req[c].exam_id, req[c].answers) IN
       IF missing # <<>>
       THEN RaiseWith(c, "ValidationError: invalid question_id(s)", missing, "")
       ELSE Goto(c, "create_submission") /\ UNCHANGED <<txSub, txAns, submissions, answers>>
  /\ UNCHANGED <<now, req, grade, provider, payload, adapter, view, synth>>

\* Submission.objects.create(...) under uniq_student_exam_submission: the
\* insert waits while another open transaction holds a row with the same
\* key, and fails once such a row is committed.
UniqueHeldBy(c, d) ==
  \E s \in txSub[d] : s.student = req[c].user /\ s.exam = req[c].exam_id

\* Variant: the table has no uniqueness constraint.
InsertSubmissionUnconstrained(c) ==
  /\ txSub' = [txSub EXCEPT ![c] =
                 {[id |-> c, student |-> req[c].user, exam |-> req[c].exam_id,
                   status |-> SUBMITTED, score |-> 0, max_score |-> 0,
                   graded_at |-> NoTime, feedback |-> NoFeedback]}]
  /\ Goto(c, "build_answers")
  /\ UNCHANGED <<txAns, submissions, answers>>

InsertSubmission(c) ==
  IF SubmissionExists(c)
  THEN Raise(c, "IntegrityError: uniq_student_exam_submission")
  ELSE /\ txSub' = [txSub EXCEPT ![c] =
                      {[id |-> c, student |-> req[c].user, exam |-> req[c].exam_id,
                        status |-> SUBMITTED, score |-> 0, max_score |-> 0,
                        graded_at |-> NoTime, feedback |-> NoFeedback]}]
       /\ Goto(c, "build_answers")
       /\ UNCHANGED <<txAns, submissions, answers>>

CreateSubmission(c) ==
  /\ pc[c] = "create_submission"
  /\ \A d \in Calls \ {c} : ~UniqueHeldBy(c, d)
  /\ InsertSubmission(c)
  /\ UNCHANGED <<now, req, grade, provider, payload, adapter, view, synth>>

\* The loop over answers_payload and SubmissionAnswer.objects.bulk_create.
BuildAnswers(c) ==
  /\ pc[c] = "build_answers"
  /\ IF ChoiceError(req[c].answers)
     THEN Raise(c, "ValidationError: choice does not belong to question")
     ELSE /\ txAns' = [txAns EXCEPT ![c] = AnswerRows(c, req[c].answers)]
          /\ Goto(c, "grade")
          /\ UNCHANGED <<txSub, submissions, answers>>
  /\ UNCHANGED <<now, req, grade, provider, payload, adapter, view, synth>>

\* Variant: parsed JSON without a per_question list fails the attempt too.
AttemptErrorOnShape(resp) ==
  IF resp.kind = "error" THEN resp.error
  ELSE IF resp.shape # "list" THEN "unexpected shape"
  ELSE "none"

\* What the try block of OpenAIProvider.grade raises for a response: the
\* error of the transport, or nothing when the content parses as JSON.
AttemptError(resp) == IF resp.kind = "error" THEN resp.error ELSE "none"

\* The except branch of OpenAIProvider.grade for attempt a.attempts:
\* last_error is set and, unless the loop is left, the thread sleeps.
FailedAttempt(a, error) ==
  [attempts |-> a.attempts + 1,
   outcomes |-> Append(a.outcomes, error),
   sleeps |-> IF a.attempts >= max_retries THEN a.sleeps
              ELSE Append(a.sleeps, BackoffDelay(a.attempts))]

\* The loop of OpenAIProvider.grade is left after a failure of this attempt:
\* by the break or because the range is used up.
LoopLeft(attempt) == attempt >= max_retries \/ attempt + 1 >= AttemptsAllowed

\* grade_submission_with_provider(submission_id), one attempt of the provider
\* at a time: the payload is built and filtered, the provider is constructed
\* (the key may be missing), an attempt fails or returns a parsed response,
\* which is normalized and merged.
Grade(c, responses) ==
  /\ pc[c] = "grade"
  /\ payload' = [payload EXCEPT ![c] =
                   payload_text_only(build_payload(req[c].exam_id, txAns[c]))]
  /\ \E resp \in responses, order \in Orders(txAns[c]) :
       LET attempt == adapter[c].attempts IN
       /\ provider' = [provider EXCEPT ![c] = resp]
       /\ CASE resp.kind = "missing_key" ->
                 /\ attempt = 0
                 /\ RaiseMessage(c, "LLMGradingError", "OPENAI_API_KEY is missing.")
                 /\ UNCHANGED <<grade, adapter>>
            [] resp.kind # "missing_key" /\ AttemptError(resp) # "none" ->
                 /\ adapter' = [adapter EXCEPT ![c] =
                                  FailedAttempt(@, AttemptError(resp))]
                 /\ IF LoopLeft(attempt)
                    THEN RaiseMessage(c, "LLMGradingError", AttemptError(resp))
                    ELSE UNCHANGED <<pc, err, txSub, txAns, submissions, answers>>
                 /\ UNCHANGED grade
            [] resp.kind # "missing_key" /\ AttemptError(resp) = "none" ->
                 /\ adapter' = [adapter EXCEPT ![c] =
                                  [@ EXCEPT !.attempts = attempt + 1,
                                            !.outcomes = Append(@, "json")]]
                 /\ LET r == normalize_grade_result(resp, txAns[c], order) IN
                      IF r.ok
                      THEN /\ grade' = [grade EXCEPT ![c] = r]
                           /\ Goto(c, "persist")
                           /\ UNCHANGED <<txSub, txAns, submissions, answers>>
                      ELSE /\ RaiseMessage(c, r.error, r.message)
                           /\ UNCHANGED grade
  /\ UNCHANGED <<now, req, view, synth>>

\* Variant: the first result is written on every row, whatever its question.
GradedRowUnmatched(a, per_question) ==
  IF per_question = <<>> THEN a
  ELSE [a EXCEPT !.is_correct = per_question[1].is_correct,
                 !.awarded_points = per_question[1].awarded_points]

\* answer_by_qid.get(r.question_id) for each r of per_question, in order:
\* the last grade for a question is the one left on its row.
GradedRow(a, per_question) ==
  LET hits == {i \in DOMAIN per_question : per_question[i].question_id = a.question}
  IN IF hits = {} THEN a
     ELSE LET r == per_question[CHOOSE i \in hits : \A j \in hits : j <= i]
          IN [a EXCEPT !.is_correct = r.is_correct,
                       !.awarded_points = r.awarded_points]

\* Variant: the scores are saved, status and graded_at are left as created.
ScoredSubmission(s, g, t) ==
  [s EXCEPT !.score = g.total_score, !.max_score = g.max_score,
            !.feedback = g.feedback]

\* The fields set on the submission before submission.save(update_fields=...).
GradedSubmission(s, g, t) ==
  [s EXCEPT !.score = g.total_score, !.max_score = g.max_score,
            !.feedback = g.feedback,
            !.status = GRADED, !.graded_at = t]

\* submission.save(update_fields=...), bulk_update of the answers, and the
\* commit when the atomic block is left.
Persist(c) ==
  /\ pc[c] = "persist"
  /\ LET g == grade[c]
         sub == {GradedSubmission(s, g, now) : s \in txSub[c]}
         ans == {GradedRow(a, g.per_question) : a \in txAns[c]}
     IN /\ submissions' = submissions \cup sub
        /\ answers' = answers \cup ans
  /\ txSub' = [txSub EXCEPT ![c] = {}]
  /\ txAns' = [txAns EXCEPT ![c] = {}]
  /\ Goto(c, "done")
  /\ UNCHANGED <<now, req, grade, provider, payload, adapter, view, synth>>

\* A write to the store fails (connection lost, lock timeout, ...).
StorageError(c) ==
  /\ pc[c] \in {"create_submission", "build_answers", "persist"}
  /\ Raise(c, "DatabaseError")
  /\ UNCHANGED <<now, req, grade, provider, payload, adapter, view, synth>>

\* ---------------------------------------------------- views.py: reads
\* Variant: the submission is looked up by its id alone.
get_submission_by_id(submission_id, user_id) ==
  {s \in submissions : s.id = submission_id}

\* get_submission_for_owner: the rows .get(id=..., student_id=...) matches.
get_submission_for_owner(submission_id, user_id) ==
  {s \in submissions : s.id = submission_id /\ s.student = user_id}

\* SubmissionListView.get_queryset for request.user.id = user_id.
list_queryset(user_id) == {s \in submissions : s.student = user_id}

\* GET of the submission list by user u.
ListView(u) ==
  /\ view' = [kind |-> "list", user |-> u, id |-> 0, rows |-> list_queryset(u)]
  /\ UNCHANGED <<now, submissions, answers, pc, req, txSub, txAns, err, grade,
                 provider, payload, adapter, synth>>

\* GET of submission sid by user u: the row, or Submission.DoesNotExist.
DetailView(u, sid) ==
  /\ LET found == get_submission_for_owner(sid, u) IN
       view' = [kind |-> IF found = {} THEN "DoesNotExist" ELSE "detail",
                user |-> u, id |-> sid, rows |-> found]
  /\ UNCHANGED <<now, submissions, answers, pc, req, txSub, txAns, err, grade,
                 provider, payload, adapter, synth>>

\* _enhance_feedback_with_mcq(feedback, per_question, total_score, max_score)
Synthesize ==
  /\ ~synth.done
  /\ synth' = [synth EXCEPT
                 !.feedback = enhance_feedback_with_mcq(
                                synth.feedback, synth.per_question,
                                synth.total_score, synth.max_score),
                 !.done = TRUE]
  /\ UNCHANGED <<now, submissions, answers, pc, req, txSub, txAns, err, grade,
                 provider, payload, adapter, view>>

\* ------------------------------------------------------- specifications
\* A JSON object with a per_question list.
JsonResponses(per_questions) ==
  [kind : {"json"}, shape : {"list"}, per_question : per_questions,
   max_score : {0, 9}, feedback : {NoProviderFeedback}]

\* A JSON object with a per_question list and a feedback value.
FeedbackResponses ==
  [kind : {"json"}, shape : {"list"},
   per_question : {<<>>, <<[question_id |-> 2, awarded_points |-> 1,
                            is_correct |-> "null", form |-> "ok"]>>},
   max_score : {9}, feedback : ProviderFeedbacks]

\* Parsed JSON without per_question, with a per_question that is no list,
\* and parsed JSON that is no object.
ShapeResponses ==
  [kind : {"json"}, shape : {"absent", "not_list", "not_object"},
   per_question : {<<>>}, max_score : {9}, feedback : {NoProviderFeedback}]

\* What an attempt raises inside the try block: requests.post fails, the
\* status is 400 or more, or the response holds no content that parses as
\* JSON (resp.json(), the path to the content or json.loads raises).
TransportErrors == {"connection error", "error status", "non-JSON output"}

ErrorResponses == [kind : {"error"}, error : TransportErrors]

\* settings.OPENAI_API_KEY is empty.
ConfigResponses == {[kind |-> "missing_key"]}

\* Concurrent requests on the two active exams: a payload that is valid for
\* exam 1 and foreign to exam 2, and one with a choice of another question.
RaceExams == {1, 2}

RacePayloads ==
  {<<Item(1, 2, <<>>), Item(2, None, <<" ", "x">>)>>,
   <<Item(1, 4, <<>>)>>}

RaceResponses ==
  {[kind |-> "error", error |-> "connection error"]}
    \cup {[kind |-> "json", shape |-> "list", per_question |-> pq,
            max_score |-> 9, feedback |-> NoProviderFeedback] :
            pq \in {<<>>, <<[question_id |-> 3, awarded_points |-> 1,
                             is_correct |-> "null", form |-> "ok"]>>}}

Step(c, users, exams, payloads, responses) ==
  \/ Post(c, users, exams, payloads)
  \/ ValidateExam(c)
  \/ CheckExists(c)
  \/ ValidateQuestions(c)
  \/ CreateSubmission(c)
  \/ BuildAnswers(c)
  \/ Grade(c, responses)
  \/ Persist(c)
  \/ StorageError(c)

Next == \E c \in Calls : Step(c, Users, RaceExams, RacePayloads, RaceResponses)

Spec == Init /\ [][Next]_vars

\* One request, as time passes, over every exam, payload and provider
\* response.
GradePayloads == SeqsUpTo(Items, 2) \cup ContentPayloads

\* The provider answers at the first attempt, if the key is there.
GradeResponses ==
  ConfigResponses
    \cup ShapeResponses
    \cup JsonResponses(SeqsUpTo(ProviderItems, MaxResp))
    \cup JsonResponses({<<item>> : item \in ZeroItems \cup MalformedItems})
    \cup JsonResponses({<<item>> : item \in IsCorrectItems})
    \cup FeedbackResponses

InitGrade == Init /\ now = 0

NextGrade ==
  \/ Tick
  \/ Step(1, {1}, ExamIds, GradePayloads, GradeResponses)

SpecGrade == InitGrade /\ [][NextGrade]_vars

\* One request for exam 1 and a provider whose attempts fail or succeed.
AdapterPayloads ==
  {<<Item(1, 2, <<>>), Item(2, None, <<"x">>)>>, <<Item(2, None, <<"x">>)>>}

AdapterResponses ==
  ConfigResponses
    \cup ErrorResponses
    \cup ShapeResponses
    \cup JsonResponses({<<>>, <<[question_id |-> 2, awarded_points |-> 1,
                                 is_correct |-> "null", form |-> "ok"]>>})

NextAdapter == Step(1, {1}, {1}, AdapterPayloads, AdapterResponses)

SpecAdapter == Init /\ [][NextAdapter]_vars

\* Requests of both users for the two active exams, and reads by both users
\* of the list and of every submission id.
ViewPayloads == {<<Item(1, 2, <<>>)>>}

ViewResponses ==
  {[kind |-> "json", shape |-> "list", per_question |-> <<>>, max_score |-> 9,
    feedback |-> NoProviderFeedback]}

InitView == Init /\ now = 1

NextView ==
  \/ \E c \in Calls : Step(c, Users, RaceExams, ViewPayloads, ViewResponses)
  \/ \E u \in Users : ListView(u)
  \/ \E u \in Users, sid \in Calls : DetailView(u, sid)

SpecView == InitView /\ [][NextView]_vars

\* The feedback synthesizer applied to every result list of exam 1 of up to
\* MaxEntries grades.
InitFeedback ==
  /\ now = 0
  /\ InitRequests
  /\ synth \in SynthInputs

NextFeedback == Synthesize

SpecFeedback == InitFeedback /\ [][NextFeedback]_vars

\* ----------------------------------------------------------- properties
Terminal == {"done", "failed", "rejected"}

AlreadySubmitted == "ValidationError: already submitted"
IntegrityError == "IntegrityError: uniq_student_exam_submission"
InvalidQuestions == "ValidationError: invalid question_id(s)"
ExamNotOpen == "ValidationError: exam not open"

\* No committed row was created by call c.
NoCommittedRows(c) ==
  /\ \A s \in submissions : s.id # c
  /\ \A a \in answers : a.submission # c

SamePair(c, d) ==
  req[c].user = req[d].user /\ req[c].exam_id = req[d].exam_id

\* C1: after a call of create_and_grade_submission ended with an error, the
\* committed store holds no Submission row and no SubmissionAnswer row
\* created by that call, and its transaction holds none either.
C1_FailureLeavesNoRows ==
  \A c \in Calls :
     pc[c] = "failed" => NoCommittedRows(c) /\ txSub[c] = {} /\ txAns[c] = {}

\* A call failed in the provider, after it wrote its Submission and
\* SubmissionAnswer rows, while another call committed its own rows.
C1_Witness ==
  \E c, d \in Calls :
     /\ pc[c] = "failed" /\ err[c].kind = "LLMGradingError"
     /\ pc[d] = "done" /\ ~NoCommittedRows(d)

\* C2: the committed store holds at most one Submission row per
\* (student, exam) pair, whatever the interleaving of the calls.
C2_OneSubmissionPerStudentExam ==
  \A s, t \in submissions : s.student = t.student /\ s.exam = t.exam => s = t

\* Two calls for one pair both passed the existence check; one committed and
\* the other was stopped by the uniqueness constraint.
C2_Witness ==
  \E c, d \in Calls :
     /\ c # d /\ SamePair(c, d)
     /\ pc[c] = "done" /\ ~NoCommittedRows(c)
     /\ pc[d] = "failed" /\ err[d].kind = IntegrityError

\* C3 as stated: a call stopped because a Submission of its (student, exam)
\* pair exists always raises the ValidationError 'already submitted'.
C3_AlwaysValidationError ==
  \A c \in Calls :
     err[c].kind \in {AlreadySubmitted, IntegrityError}
       => err[c].kind = AlreadySubmitted

\* C3 amended: while a Submission of its pair is committed, a call never
\* succeeds; its existence check raises 'already submitted', and a call that
\* passed the check before the commit fails at the insert with a storage
\* error (the uniqueness violation).
C3_DoubleSubmissionFails ==
  [][\A c \in Calls :
       SubmissionExists(c) =>
         /\ pc[c] = "check_exists" /\ pc'[c] # pc[c]
              => pc'[c] = "failed" /\ err'[c].kind = AlreadySubmitted
         /\ pc[c] = "create_submission" /\ pc'[c] # pc[c]
              => pc'[c] = "failed"
                 /\ err'[c].kind \in {IntegrityError, "DatabaseError"}
         /\ pc[c] # "done" => pc'[c] # "done"]_vars

\* A sequential second submission was refused by the existence check.
C3_Witness ==
  \E c, d \in Calls :
     /\ c # d /\ SamePair(c, d)
     /\ pc[c] = "done"
     /\ pc[d] = "failed" /\ err[d].kind = AlreadySubmitted

\* Sum of the awarded_points persisted on the answer rows of a submission;
\* a row the grading never wrote (null) adds nothing.
RECURSIVE PersistedAwarded(_)
PersistedAwarded(rows) ==
  IF rows = {} THEN 0
  ELSE LET a == CHOOSE x \in rows : TRUE
       IN (IF a.awarded_points = NoPoints THEN 0 ELSE a.awarded_points)
          + PersistedAwarded(rows \ {a})

\* C4: the score of every committed Submission equals the sum of the
\* awarded_points persisted on its SubmissionAnswer rows.
C4_ScoreIsSumOfPersisted ==
  \A s \in submissions :
     s.score = PersistedAwarded({a \in answers : a.submission = s.id})

\* Sum of the points of all questions of an exam.
RECURSIVE PointsOf(_)
PointsOf(qs) ==
  IF qs = {} THEN 0
  ELSE LET q == CHOOSE x \in qs : TRUE
       IN QuestionRows[q].points + PointsOf(qs \ {q})

ExamPoints(e) == PointsOf({q \in QuestionIds : QuestionRows[q].exam = e})

\* C5: the max_score of every committed Submission equals the sum of the
\* points of all questions of its exam, answered or not.
C5_MaxScoreIsExamTotal ==
  \A s \in submissions : s.max_score = ExamPoints(s.exam)

\* The choice is the first marked-correct choice of the question.
IsFirstCorrect(q, ch) ==
  /\ ch \in ChoiceIds
  /\ ChoiceRows[ch].question = q /\ ChoiceRows[ch].is_correct
  /\ \A k \in ChoiceIds :
        ChoiceRows[k].question = q /\ ChoiceRows[k].is_correct => ch <= k

\* C6: every grade of a MultipleChoice answer is points/true when the
\* submitted choice is the first marked-correct choice and 0/false
\* otherwise, whatever the provider returned.
C6_McqNeverFromProvider ==
  \A c \in Calls :
     grade[c].ok =>
       \A i \in DOMAIN req[c].answers :
          LET item == req[c].answers[i]
              q == item.question_id
              pq == grade[c].per_question
              right == IsFirstCorrect(q, item.selected_choice_id)
          IN QuestionRows[q].type = MCQ =>
               /\ \E j \in DOMAIN pq : pq[j].question_id = q
               /\ \A j \in DOMAIN pq :
                     pq[j].question_id = q =>
                       /\ pq[j].awarded_points =
                            (IF right THEN QuestionRows[q].points ELSE 0)
                       /\ pq[j].is_correct = (IF right THEN "true" ELSE "false")

EntriesFor(s, q) == SelectSeq(s, LAMBDA x : x.question_id = q)

\* C7: every per-question grade has 0 <= awarded_points <= question.points,
\* and the grades made from the provider's entries for a question are those
\* entries, in order, with a value above the points replaced by the points
\* and a negative value replaced by 0.
C7_AwardedWithinQuestionPoints ==
  \A c \in Calls :
     grade[c].ok =>
       /\ \A i \in DOMAIN grade[c].per_question :
             LET g == grade[c].per_question[i] IN
               /\ 0 <= g.awarded_points
               /\ g.awarded_points <= QuestionRows[g.question_id].points
       /\ \A q \in QuestionIds :
             LET given == EntriesFor(provider[c].per_question, q)
                 made == EntriesFor(grade[c].per_question, q)
                 points == QuestionRows[q].points
             IN given # <<>> =>
                  /\ Len(made) = Len(given)
                  /\ \A k \in DOMAIN given :
                        made[k].awarded_points =
                          (IF given[k].awarded_points > points THEN points
                           ELSE IF given[k].awarded_points < 0 THEN 0
                           ELSE given[k].awarded_points)

\* The provider gave one value above the question's points and one negative
\* value, and grading succeeded.
C7_Witness ==
  \E c \in Calls :
     /\ grade[c].ok
     /\ \E i, j \in DOMAIN provider[c].per_question :
           LET a == provider[c].per_question[i]
               b == provider[c].per_question[j]
           IN /\ a.awarded_points > QuestionRows[a.question_id].points
              /\ b.awarded_points < 0

\* ShortText questions of the request the provider returned no entry for.
OmittedShortText(c) ==
  {i \in DOMAIN req[c].answers :
     LET q == req[c].answers[i].question_id IN
       /\ QuestionRows[q].type = SHORT_TEXT
       /\ \A j \in DOMAIN provider[c].per_question :
             provider[c].per_question[j].question_id # q}

\* C8: a successful grading of N answered questions yields N minus the
\* number of omitted ShortText questions per-question results, never more
\* than N.
C8_ResultCount ==
  \A c \in Calls :
     grade[c].ok =>
       LET n == Len(req[c].answers) IN
         /\ Len(grade[c].per_question) = n - Cardinality(OmittedShortText(c))
         /\ Len(grade[c].per_question) <= n

\* The question ids of the request that do not belong to its exam.
ForeignIds(c) ==
  SelectSeq([i \in DOMAIN req[c].answers |-> req[c].answers[i].question_id],
            LAMBDA q : q \notin QuestionIds \/ QuestionRows[q].exam # req[c].exam_id)

\* C9 as stated: a call whose answer list has a question_id foreign to the
\* exam ends with the ValidationError listing every such id.
C9_AlwaysListsForeignIds ==
  \A c \in Calls :
     ForeignIds(c) # <<>> /\ pc[c] \in {"done", "failed"}
       => pc[c] = "failed"
          /\ err[c].kind = InvalidQuestions /\ err[c].ids = ForeignIds(c)

\* C9 amended: a call whose answer list has a question_id foreign to the
\* exam never calls the provider and never writes a row; when it reaches the
\* question validation (exam open, no Submission found) it fails there with
\* the ValidationError listing every such id, and otherwise it failed in the
\* exam-open or existence check.
C9_ForeignIdsRejected ==
  [][\A c \in Calls :
       ForeignIds(c) # <<>> /\ pc[c] \notin {"idle", "rejected"} =>
         /\ pc[c] = "validate_questions" /\ pc'[c] # pc[c]
              => pc'[c] = "failed"
                 /\ err'[c].kind = InvalidQuestions /\ err'[c].ids = ForeignIds(c)
         /\ pc'[c] \in {"validate_exam", "check_exists", "validate_questions",
                        "failed"}
         /\ pc'[c] = "failed"
              => err'[c].kind \in {ExamNotOpen, AlreadySubmitted, InvalidQuestions}
         /\ provider'[c] = NoResp
         /\ txSub'[c] = {} /\ txAns'[c] = {}
         /\ \A s \in submissions' : s.id # c
         /\ \A a \in answers' : a.submission # c]_vars

\* A call with two foreign question ids failed with both listed.
C9_Witness ==
  \E c \in Calls :
     /\ pc[c] = "failed" /\ err[c].kind = InvalidQuestions
     /\ Len(err[c].ids) = 2 /\ err[c].ids = ForeignIds(c)

\* The claim's definition of an open exam.
OpenAt(e, t) ==
  /\ ExamRows[e].is_active
  /\ ExamRows[e].starts_at = NoTime \/ t >= ExamRows[e].starts_at
  /\ ExamRows[e].ends_at = NoTime \/ t <= ExamRows[e].ends_at

\* C10: the first step lets the call proceed exactly when the exam is open
\* (active, not before its start, not after its end); otherwise the call
\* fails with 'exam not open' and has created no rows.
C10_ProceedsOnlyIfOpen ==
  [][\A c \in Calls :
       pc[c] = "validate_exam" /\ pc'[c] # pc[c] =>
         IF OpenAt(req[c].exam_id, now)
         THEN pc'[c] = "check_exists"
         ELSE /\ pc'[c] = "failed" /\ err'[c].kind = ExamNotOpen
              /\ txSub'[c] = {} /\ txAns'[c] = {}
              /\ \A s \in submissions' : s.id # c
              /\ \A a \in answers' : a.submission # c]_vars

\* A call was refused on an active exam whose window had ended.
C10_Witness ==
  \E c \in Calls :
     /\ pc[c] = "failed" /\ err[c].kind = ExamNotOpen
     /\ ExamRows[req[c].exam_id].is_active
     /\ ExamRows[req[c].exam_id].ends_at # NoTime
     /\ now > ExamRows[req[c].exam_id].ends_at

ChoiceNotInQuestion == "ValidationError: choice does not belong to question"
GradingProviderError == "LLMGradingError"

\* C11: the adapter never makes a fifth attempt; when four attempts in a row
\* failed in the transport the call has failed with the GradingProviderError
\* that carries the error of the fourth attempt, and no row of the call is
\* left in the store or in its transaction; the adapter gives up with a
\* transport error only after four attempts that all failed.
C11_FourAttemptsThenError ==
  \A c \in Calls :
     LET a == adapter[c] IN
       /\ a.attempts <= 4 /\ Len(a.outcomes) = a.attempts
       /\ (a.attempts = 4 /\ \A i \in 1..4 : a.outcomes[i] \in TransportErrors)
            => /\ pc[c] = "failed"
               /\ err[c].kind = GradingProviderError
               /\ err[c].message = a.outcomes[4]
               /\ NoCommittedRows(c) /\ txSub[c] = {} /\ txAns[c] = {}
       /\ (pc[c] = "failed" /\ err[c].kind = GradingProviderError
             /\ err[c].message \in TransportErrors)
            => /\ a.attempts = 4
               /\ \A i \in 1..4 : a.outcomes[i] \in TransportErrors

\* Four attempts failed, the first and the last with different errors, and
\* the call failed with the error of the last one.
C11_Witness ==
  \E c \in Calls :
     /\ pc[c] = "failed" /\ adapter[c].attempts = 4
     /\ adapter[c].outcomes[1] = "connection error"
     /\ adapter[c].outcomes[4] = "non-JSON output"
     /\ err[c].message = "non-JSON output"
     /\ adapter[c].sleeps = <<8, 16, 24>>

ValidationErrors ==
  {ExamNotOpen, AlreadySubmitted, InvalidQuestions, ChoiceNotInQuestion}

\* C12 as stated: when a call raises a validation error, its transaction
\* holds no Submission row and no SubmissionAnswer row at that moment.
C12_ValidationBeforeAnyWrite ==
  [][\A c \in Calls :
       pc[c] # "failed" /\ pc'[c] = "failed" /\ err'[c].kind \in ValidationErrors
         => txSub[c] = {} /\ txAns[c] = {}]_vars

\* The ShortText questions of the call's exam that its answer list leaves out.
UnansweredShortText(c) ==
  {q \in QuestionIds :
     /\ QuestionRows[q].exam = req[c].exam_id
     /\ QuestionRows[q].type = SHORT_TEXT
     /\ \A i \in DOMAIN req[c].answers : req[c].answers[i].question_id # q}

\* The response is a per_question list of one well-formed entry.
OneEntry(resp) ==
  /\ resp.kind = "json" /\ resp.shape = "list"
  /\ Len(resp.per_question) = 1 /\ resp.per_question[1].form = "ok"

\* C13 as stated: when the provider answers, for an unanswered ShortText
\* question, with one entry of 0 points, grading succeeds and the final
\* list has that entry; when it answers with an empty list, grading
\* succeeds and the final list has no entry for the question.
C13_UnansweredShortTextHonored ==
  [][\A c \in Calls :
       pc[c] = "grade" /\ pc'[c] # "grade" /\ UnansweredShortText(c) # {} =>
         /\ (/\ OneEntry(provider'[c])
             /\ provider'[c].per_question[1].question_id \in UnansweredShortText(c)
             /\ provider'[c].per_question[1].awarded_points = 0)
              => /\ pc'[c] = "persist"
                 /\ \E i \in DOMAIN grade'[c].per_question :
                       /\ grade'[c].per_question[i].question_id
                            = provider'[c].per_question[1].question_id
                       /\ grade'[c].per_question[i].awarded_points = 0
         /\ (/\ provider'[c].kind = "json" /\ provider'[c].shape = "list"
             /\ provider'[c].per_question = <<>>)
              => /\ pc'[c] = "persist"
                 /\ \A i \in DOMAIN grade'[c].per_question :
                       grade'[c].per_question[i].question_id
                         \notin UnansweredShortText(c)]_vars

\* C14 as stated: a response whose per_question is absent or is no list
\* makes the normalizer fail with GradingProviderError.
C14_PerQuestionRequired ==
  [][\A c \in Calls :
       /\ pc[c] = "grade" /\ pc'[c] # "grade"
       /\ provider'[c].kind = "json"
       /\ provider'[c].shape \in {"absent", "not_list"}
       => pc'[c] = "failed" /\ err'[c].kind = GradingProviderError]_vars

C16_OnlyGradingProviderError ==
  [][\A c \in Calls :
       pc[c] = "grade" /\ pc'[c] = "failed"
         => err'[c].kind = GradingProviderError]_vars

Graded(s) == s.status = GRADED /\ s.graded_at # NoTime

\* C17: every committed Submission is GRADED with graded_at set, before and
\* after every step, a SUBMITTED row exists only inside the transaction of
\* a call that is between its insert and its commit, and no step removes
\* or changes a committed Submission.
C17_CommittedMeansGraded ==
  [][/\ \A s \in submissions \cup submissions' : Graded(s)
     /\ submissions \subseteq submissions'
     /\ \A c \in Calls :
          /\ \A s \in txSub'[c] : s.status = SUBMITTED /\ s.graded_at = NoTime
          /\ txSub'[c] # {} => pc'[c] \in {"build_answers", "grade", "persist"}
          /\ (txSub[c] # {} /\ txSub'[c] = {})
               => \/ pc'[c] = "failed" /\ submissions' = submissions
                  \/ /\ pc'[c] = "done"
                     /\ submissions' = submissions
                          \cup {[s EXCEPT !.status = GRADED, !.graded_at = now,
                                          !.score = grade[c].total_score,
                                          !.max_score = grade[c].max_score,
                                          !.feedback = grade[c].feedback] :
                                  s \in txSub[c]}]_vars

\* A call holds its SUBMITTED row in its transaction while the store shows
\* the GRADED row of another call.
C17_Witness ==
  \E c, d \in Calls :
     /\ \E s \in txSub[c] : s.status = SUBMITTED
     /\ \E s \in submissions : s.id = d /\ Graded(s)

\* C18 as stated: a call goes on past the answer loop only if every choice
\* id given for a MultipleChoice question belongs to that question.
C18_GivenChoiceBelongs ==
  \A c \in Calls :
     pc[c] \in {"grade", "persist", "done"} =>
       \A i \in DOMAIN req[c].answers :
          LET item == req[c].answers[i] IN
            QuestionRows[item.question_id].type = MCQ
              /\ item.selected_choice_id # None
              => validate_choice(item.question_id, item.selected_choice_id)

Distinct(answers_payload) ==
  \A i, j \in DOMAIN answers_payload :
     answers_payload[i].question_id = answers_payload[j].question_id => i = j

\* C19: a request is rejected at the boundary exactly when its answer list
\* is empty or repeats a question_id; a rejected request has called neither
\* the core nor the provider and holds no row; every request in the core
\* has a non-empty list of distinct question_ids.
C19_BoundaryRejects ==
  \A c \in Calls :
     pc[c] # "idle" =>
       /\ pc[c] = "rejected"
            <=> (req[c].answers = <<>> \/ ~Distinct(req[c].answers))
       /\ pc[c] = "rejected"
            => /\ err[c].kind = "serializer: answers"
               /\ provider[c] = NoResp /\ adapter[c] = NoAttempts
               /\ txSub[c] = {} /\ txAns[c] = {} /\ NoCommittedRows(c)
       /\ pc[c] # "rejected"
            => req[c].answers # <<>> /\ Distinct(req[c].answers)

\* A request that repeats a question_id was rejected.
C19_Witness ==
  \E c \in Calls :
     /\ pc[c] = "rejected" /\ Len(req[c].answers) = 2
     /\ req[c].answers[1].question_id = req[c].answers[2].question_id

\* C20: the list returned to user u is the set of committed submissions
\* whose student is u, and a fetch of submission sid by u returns a row only
\* if the row has that id and student u, and DoesNotExist otherwise.
C20_OnlyOwnSubmissions ==
  [][view' # view =>
       /\ view'.kind = "list"
            => view'.rows = {s \in submissions : s.student = view'.user}
       /\ view'.kind = "detail"
            => /\ view'.rows # {}
               /\ \A s \in view'.rows :
                     s \in submissions /\ s.id = view'.id /\ s.student = view'.user
       /\ view'.kind = "DoesNotExist"
            => /\ view'.rows = {}
               /\ ~\E s \in submissions :
                     s.id = view'.id /\ s.student = view'.user]_vars

\* A user was refused the submission of the other user, which is committed.
C20_Witness ==
  /\ view.kind = "DoesNotExist"
  /\ \E s \in submissions : s.id = view.id /\ s.student # view.user

\* C21: the per-question list of every grade result is in ascending order
\* of question_id, whatever the order of the provider's entries and the
\* order in which the answer rows were read.
C21_MergedListSorted ==
  \A c \in Calls :
     grade[c].ok =>
       \A i, j \in DOMAIN grade[c].per_question :
          i < j => grade[c].per_question[i].question_id
                     <= grade[c].per_question[j].question_id

\* The provider listed question 2 before question 1 and the call was graded
\* with both entries.
C21_Witness ==
  \E c \in Calls :
     /\ pc[c] = "done" /\ grade[c].ok
     /\ provider[c].kind = "json" /\ provider[c].shape = "list"
     /\ Len(provider[c].per_question) = 2
     /\ provider[c].per_question[1].question_id = 2
     /\ provider[c].per_question[2].question_id = 1
     /\ Len(grade[c].per_question) = 2

\* The failed attempts of a call so far.
Failures(c) ==
  {i \in DOMAIN adapter[c].outcomes : adapter[c].outcomes[i] \in TransportErrors}

C23_StopsAtFirstJson ==
  \A c \in Calls :
     LET a == adapter[c] IN
       /\ a.attempts = Len(a.outcomes)
       /\ \A i \in DOMAIN a.outcomes :
             /\ a.outcomes[i] \in TransportErrors \cup {"json"}
             /\ a.outcomes[i] = "json" => i = a.attempts /\ pc[c] # "grade"
       /\ provider[c].kind = "json"
            => a.attempts >= 1 /\ a.outcomes[a.attempts] = "json"
       /\ provider[c].kind = "error"
            => a.attempts >= 1 /\ a.outcomes[a.attempts] = provider[c].error

\* After two failed attempts the third returned JSON that is no object; no
\* fourth attempt was made and the normalizer failed.
C23_Witness ==
  \E c \in Calls :
     /\ pc[c] = "failed" /\ adapter[c].attempts = 3
     /\ adapter[c].outcomes[3] = "json"
     /\ provider[c].kind = "json" /\ provider[c].shape = "not_object"
     /\ err[c].kind = "AttributeError"

\* The is_correct values of the entries of a list for question q, in order.
IsCorrectFor(entries, q) ==
  LET hits == SelectSeq(entries, LAMBDA e : e.question_id = q)
  IN [i \in DOMAIN hits |-> hits[i].is_correct]

\* The value the claim gives to a provider's is_correct.
ExactBooleanOrNull(value) ==
  CASE value = "true" -> "true"
    [] value = "false" -> "false"
    [] OTHER -> "null"

\* C24: in every grade result, the entries for a question the provider
\* graded carry, in the provider's order, the provider's is_correct when it
\* is true, false or null, and null for any other value or none.
C24_IsCorrectExactOrNull ==
  \A c \in Calls :
     grade[c].ok /\ provider[c].kind = "json" /\ provider[c].shape = "list" =>
       \A k \in DOMAIN provider[c].per_question :
          LET q == provider[c].per_question[k].question_id
              given == IsCorrectFor(provider[c].per_question, q)
          IN IsCorrectFor(grade[c].per_question, q)
               = [i \in DOMAIN given |-> ExactBooleanOrNull(given[i])]

\* A graded call whose provider gave a string as is_correct.
C24_Witness ==
  \E c \in Calls :
     /\ pc[c] = "done" /\ grade[c].ok
     /\ provider[c].kind = "json" /\ provider[c].shape = "list"
     /\ Len(provider[c].per_question) = 1
     /\ provider[c].per_question[1].is_correct = "string true"
     /\ \E i \in DOMAIN grade[c].per_question :
           /\ grade[c].per_question[i].question_id = 2
           /\ grade[c].per_question[i].is_correct = "null"

SameContent(a, b) ==
  /\ a.submission = b.submission /\ a.question = b.question
  /\ a.answer_text = b.answer_text /\ a.selected_choice = b.selected_choice

Ungraded(a) == a.is_correct = "null" /\ a.awarded_points = NoPoints

\* Row b carries the grade of an entry of the list for its question, or no
\* grade when the list has no entry for it.
GradeMatchedByQuestion(b, per_question) ==
  LET hits == {i \in DOMAIN per_question :
                 per_question[i].question_id = b.question}
  IN IF hits = {} THEN Ungraded(b)
     ELSE \E i \in hits : /\ b.is_correct = per_question[i].is_correct
                           /\ b.awarded_points = per_question[i].awarded_points

\* C25: a committed SubmissionAnswer row never changes; a row inside a
\* transaction carries no grade; in one step it stays as it is, or is rolled
\* back with all rows of its call, or is committed with all rows of its
\* call, its content fields as created and its grade fields taken from the
\* grade result by question id.
C25_AnswerContentImmutable ==
  [][\A c \in Calls :
       /\ \A a \in answers : a \in answers'
       /\ \A a \in txAns[c] : Ungraded(a)
       /\ \/ txAns'[c] = txAns[c]
          \/ txAns[c] = {}
          \/ /\ txAns'[c] = {} /\ pc'[c] = "failed"
             /\ \A b \in answers' : b.submission # c
          \/ /\ txAns'[c] = {} /\ pc'[c] = "done"
             /\ \A a \in txAns[c] :
                   \E b \in answers' \ answers :
                      SameContent(a, b)
                        /\ GradeMatchedByQuestion(b, grade[c].per_question)
             /\ \A b \in answers' \ answers :
                   \E a \in txAns[c] : SameContent(a, b)]_vars

\* A call was committed with one row graded and another row left without a
\* grade.
C25_Witness ==
  \E a, b \in answers :
     /\ a.submission = b.submission
     /\ ~Ungraded(a) /\ Ungraded(b)

\* C28 as stated: the score of every committed Submission lies between 0
\* and its max_score.
C28_ScoreWithinMax ==
  \A s \in submissions : 0 <= s.score /\ s.score <= s.max_score

\* The call's answer list has an item for question q.
Answered(c, q) ==
  \E i \in DOMAIN req[c].answers : req[c].answers[i].question_id = q

\* C29: every entry of a grade result is for a question the call answered;
\* while the result waits to be persisted the call's transaction holds the
\* row of that question, and once the call is done the store holds it with
\* a grade; a call whose provider returned an entry for a question it did
\* not answer has failed.
C29_EveryGradeHasRow ==
  \A c \in Calls :
     /\ grade[c].ok =>
          \A i \in DOMAIN grade[c].per_question :
             LET q == grade[c].per_question[i].question_id IN
               /\ Answered(c, q)
               /\ pc[c] = "persist" => \E a \in txAns[c] : a.question = q
               /\ pc[c] = "done"
                    => \E a \in answers : /\ a.submission = c /\ a.question = q
                                          /\ a.awarded_points # NoPoints
     /\ (/\ provider[c].kind = "json" /\ provider[c].shape = "list"
         /\ \E k \in DOMAIN provider[c].per_question :
               ~Answered(c, provider[c].per_question[k].question_id))
          => pc[c] = "failed" /\ ~grade[c].ok /\ NoCommittedRows(c)

\* The provider graded question 2, which the call did not answer, and the
\* call failed in the lookup of the answer row.
C29_Witness ==
  \E c \in Calls :
     /\ pc[c] = "failed" /\ err[c].kind = "DoesNotExist"
     /\ provider[c].kind = "json" /\ provider[c].shape = "list"
     /\ Len(provider[c].per_question) = 2
     /\ Answered(c, provider[c].per_question[1].question_id)
     /\ ~Answered(c, provider[c].per_question[2].question_id)

\* Text s is text t without its leading and trailing spaces.
StrippedOf(t, s) ==
  /\ s = <<>> \/ (s[1] # " " /\ s[Len(s)] # " ")
  /\ \E i \in 0..Len(t) :
        /\ i + Len(s) <= Len(t)
        /\ s = SubSeq(t, i + 1, i + Len(s))
        /\ \A k \in 1..Len(t) : (k <= i \/ k > i + Len(s)) => t[k] = " "

\* The rows of a call, in its transaction or committed.
RowsOf(c) == txAns[c] \cup {a \in answers : a.submission = c}

\* C30: every row of a call for a MultipleChoice question has the empty
\* text; every row for a ShortText question has no selected choice and the
\* text of its item without leading and trailing spaces.
C30_ContentFitsKind ==
  \A c \in Calls :
     \A a \in RowsOf(c) :
        \E i \in DOMAIN req[c].answers :
           LET item == req[c].answers[i] IN
             /\ item.question_id = a.question
             /\ QuestionRows[a.question].type = MCQ => a.answer_text = <<>>
             /\ QuestionRows[a.question].type = SHORT_TEXT
                  => /\ a.selected_choice = None
                     /\ StrippedOf(item.answer_text, a.answer_text)

\* A committed call sent a text with its MultipleChoice answer and a choice
\* id of another question, with a padded text, as its ShortText answer.
C30_Witness ==
  \E c \in Calls :
     /\ pc[c] = "done"
     /\ \E i \in DOMAIN req[c].answers :
           /\ req[c].answers[i].question_id = 1
           /\ req[c].answers[i].answer_text = <<"x">>
     /\ \E i \in DOMAIN req[c].answers :
           /\ req[c].answers[i].question_id = 2
           /\ req[c].answers[i].selected_choice_id = 4
           /\ req[c].answers[i].answer_text = <<" ", "x", " ">>
     /\ \E a \in answers :
           a.submission = c /\ a.question = 2 /\ a.answer_text = <<"x">>

\* The entries other than summary of the feedback object a response holds.
OtherEntries(resp) ==
  IF resp.feedback.shape = "object" THEN resp.feedback.others ELSE {}

\* C27: the feedback of every committed Submission has a summary, which is
\* the synthesized one, and has exactly the other entries of the feedback
\* object the provider returned to its call, unchanged.
C27_OnlySummaryReplaced ==
  \A s \in submissions :
     /\ provider[s.id].kind = "json"
     /\ s.feedback.summary_kind = "parts"
     /\ s.feedback.summary # <<>>
     /\ s.feedback.summary[1].kind = "Overall Performance"
     /\ s.feedback.others = OtherEntries(provider[s.id])

\* A committed Submission whose provider returned a summary and another
\* entry: the summary was replaced and the other entry kept.
C27_Witness ==
  \E s \in submissions :
     /\ provider[s.id].feedback.summary_kind = "text"
     /\ provider[s.id].feedback.others = {<<"strengths", "clear">>}
     /\ s.feedback.others = {<<"strengths", "clear">>}
     /\ \E i \in DOMAIN s.feedback.summary :
           /\ s.feedback.summary[i].kind = "provider summary"
           /\ s.feedback.summary[i].text = <<"o", "k">>

\* The MultipleChoice entries of a result list, and the correct ones.
McqEntries(per_question) ==
  {i \in DOMAIN per_question :
     QuestionRows[per_question[i].question_id].type = MCQ}

McqCorrect(per_question) ==
  {i \in McqEntries(per_question) : per_question[i].is_correct = "true"}

McqSentences == {"Strong performance", "Good understanding", "need improvement"}

\* C26: the synthesized summary of a list with t > 0 MultipleChoice entries,
\* c of them correct, has exactly one MultipleChoice sentence: 'Strong' when
\* c = t, 'Good understanding' when c < t and 2c > t, 'need improvement'
\* otherwise; the summary of a list without such an entry has none.
C26_McqSentenceByCount ==
  synth.done =>
    LET t == Cardinality(McqEntries(synth.per_question))
        c == Cardinality(McqCorrect(synth.per_question))
        said == {i \in DOMAIN synth.feedback.summary :
                   synth.feedback.summary[i].kind \in McqSentences}
    IN IF t = 0 THEN said = {}
       ELSE /\ Cardinality(said) = 1
            /\ \A i \in said :
                  synth.feedback.summary[i].kind =
                    CASE c = t -> "Strong performance"
                      [] c < t /\ 2 * c > t -> "Good understanding"
                      [] OTHER -> "need improvement"

\* Two of three MultipleChoice entries were correct and the summary says
\* 'Good understanding'.
C26_Witness ==
  /\ synth.done
  /\ Cardinality(McqEntries(synth.per_question)) = 3
  /\ Cardinality(McqCorrect(synth.per_question)) = 2
  /\ \E i \in DOMAIN synth.feedback.summary :
        synth.feedback.summary[i].kind = "Good understanding"

====
